---- MODULE Spec2Model ----
(***************************************************************************)
(* Model of the MarketResearch contract (src/unnamed/part_000): the ledger *)
(* of encrypted survey responses, its one-shot verification transition and *)
(* the aggregate views computed over the verified responses.               *)
(*                                                                         *)
(* Every external function of the contract is one action.  A call that     *)
(* reverts leaves the contract storage and the event log untouched, as the *)
(* EVM guarantees; only the record of the last call (function, id, outcome *)
(* and return value), which is what the caller observes, changes.          *)
(***************************************************************************)
EXTENDS Integers, Sequences, FiniteSets, TLC

(***************************************************************************)
(* Bounds.                                                                 *)
(***************************************************************************)
\* type(uint32).max, scaled down from 2^32 - 1 so that sums stay small
Uint32Max == 31
\* block.timestamp ranges over 1..MaxTime
MaxTime == 2

\* response ids used by callers
Ids == {"a", "b"}
\* msg.sender values; address(0) is never a sender
Senders == {1, 2}
ZeroAddress == 0
\* non-zero ciphertext handles; 0 is the uninitialized euint32
Handles == {1, 2}
ZeroHandle == 0
\* publicMetadata values
Metadata == {1}
\* abi-encoded clear answers: one 256-bit word, written as its two limbs
\* <<bits 255..32, bits 31..0>>; a payload shorter than a word has no limbs
Payloads == {<<0, 3>>, <<0, Uint32Max>>, <<1, 0>>}
\* bucketSize arguments
BucketSizes == {0, 1, 5}

\* a byte string that is no attestation at all
Junk == [kind |-> "junk"]
\* an input proof: the coprocessors' attestation that `handle` was formed by
\* `user` for this contract
InputProof(h, s) == [kind |-> "input", handle |-> h, user |-> s]
\* a decryption proof: the KMS signatures over (handles, clear values)
KmsProof(h, p) == [kind |-> "kms", cts |-> <<h>>, clear |-> p]

\* (externalEuint32, inputProof) arguments of submitResponse: a handle with
\* its attestation for some user, a handle with no attestation, and the
\* zero handle attested for a user
EncryptedInputs ==
    {[ext |-> h, proof |-> InputProof(h, s)] : h \in Handles, s \in Senders}
    \cup {[ext |-> 1, proof |-> Junk],
          [ext |-> ZeroHandle, proof |-> InputProof(ZeroHandle, 1)]}
\* (abiEncodedClearAnswer, decryptionProof) arguments of verifyDecryption:
\* a payload with the signatures over it for some handle, a payload with no
\* signatures, and a payload with the signatures over another payload
ClearAnswers ==
    {[payload |-> p, proof |-> KmsProof(h, p)] : h \in Handles, p \in Payloads}
    \cup {[payload |-> <<0, 3>>, proof |-> Junk],
          [payload |-> <<0, 3>>, proof |-> KmsProof(1, <<0, Uint32Max>>)],
          [payload |-> <<>>, proof |-> KmsProof(1, <<>>)]}

(***************************************************************************)
(* Outcomes of a call: success, or the reason of the revert.               *)
(***************************************************************************)
Ok == "ok"
AlreadyExists == "Response already exists"
InvalidInput == "Invalid encrypted input"
InvalidProof == "InputVerifier: invalid input proof"
DoesNotExist == "Response does not exist"
AlreadyVerified == "Response already verified"
InvalidKMSSignatures == "KMSVerifier: invalid signatures"
DecodeError == "abi.decode: value out of range"
NoVerified == "No verified responses"
PanicOverflow == "Panic(0x11)"
PanicDivZero == "Panic(0x12)"

\* the error names of the interface
DuplicateId == {AlreadyExists}
InvalidCiphertext == {InvalidInput, InvalidProof}
NotFound == {DoesNotExist}
ProofInvalid == {InvalidKMSSignatures}
NoVerifiedData == {NoVerified}
\* the typed rejection of a bad argument; no revert of the contract has it
InvalidArgument == {"InvalidArgument"}

VARIABLES
    surveyResponses,   \* mapping(string => SurveyResponse)
    responseIds,       \* string[]
    events,            \* the event log of the contract
    blockTimestamp,    \* block.timestamp of the next call
    last,              \* the last call: function, id, outcome, return value
    sigChecks,         \* the FHE.checkSignatures calls that passed in a
                       \* committed call: (handles, clear values, proof)
    orch               \* the decryptData call of every front end: where it
                       \* stands, what it read, called, reported and returned

vars == <<surveyResponses, responseIds, events, blockTimestamp, last, sigChecks,
          orch>>

\* the front ends that run decryptData
Orchestrators == {1, 2}

\* the transaction status shown by the front end
NoStatus == [status |-> "pending", message |-> ""]
\* "请先连接钱包"
WalletNotConnected == [status |-> "error", message |-> "connect the wallet first"]
\* "数据已在链上验证"
OnChainVerified == [status |-> "success", message |-> "already verified on chain"]
\* "数据解密验证成功！"
DecryptVerified == [status |-> "success", message |-> "decryption verified"]
\* "解密失败: " followed by the message of the error
DecryptFailed == [status |-> "error", message |-> "decryption failed"]

\* a front end that is not running decryptData
Idle ==
    [pc |-> "idle", id |-> "", read |-> "none", handle |-> ZeroHandle,
     calls |-> {}, outcome |-> "", status |-> NoStatus, reloaded |-> FALSE,
     returned |-> <<>>]

\* the value of a storage slot never written
EmptyResponse ==
    [encryptedAnswer |-> ZeroHandle, publicMetadata |-> 0,
     respondent |-> ZeroAddress, timestamp |-> 0,
     decryptedAnswer |-> 0, isVerified |-> FALSE]

\* the existence test written in the require of every function: the source
\* takes bytes(...).length of the respondent address, which stands for
\* "the record has a respondent", as the messages of the requires say
Exists(responses, id) == responses[id].respondent # ZeroAddress

(***************************************************************************)
(* The FHE library, as far as the contract relies on it.                   *)
(***************************************************************************)
Reverted == -1

\* FHE.fromExternal: the handle, when the proof attests it for the sender
FromExternal(ext, proof, sender) ==
    IF proof.kind = "input" /\ proof.handle = ext /\ proof.user = sender
    THEN ext ELSE Reverted

IsInitialized(h) == h # ZeroHandle

\* FHE.checkSignatures: the signatures cover exactly these handles and
\* these clear values
CheckSignatures(cts, clear, proof) ==
    proof.kind = "kms" /\ proof.cts = cts /\ proof.clear = clear

\* abi.decode(payload, (uint32)) reverts on less than one word and on a word
\* of 2^32 or more; otherwise it yields the low limb
Decodable(payload) == Len(payload) >= 2 /\ payload[1] = 0

\* AbiDecode reading the other limb of the word
AbiDecodeHighLimb(payload) == payload[1]

AbiDecode(payload) == payload[2]

Init ==
    /\ surveyResponses = [id \in Ids |-> EmptyResponse]
    /\ responseIds = <<>>
    /\ events = <<>>
    /\ blockTimestamp = 1
    /\ last = [op |-> "constructor", id |-> "", result |-> Ok, ret |-> <<>>]
    /\ sigChecks = {}
    /\ orch = [o \in Orchestrators |-> Idle]

\* time passes between two calls
Tick ==
    /\ blockTimestamp < MaxTime
    /\ blockTimestamp' = blockTimestamp + 1
    /\ UNCHANGED <<surveyResponses, responseIds, events, last, sigChecks>>

\* a call that reverts with `reason`
Revert(call, reason) ==
    /\ last' = [call EXCEPT !.result = reason]
    /\ UNCHANGED <<surveyResponses, responseIds, events, blockTimestamp,
                   sigChecks>>

\* SubmitOutcome without the require on FHE.isInitialized
SubmitOutcomeNoInitializedCheck(sender, id, ext, proof) ==
    IF Exists(surveyResponses, id) THEN AlreadyExists
    ELSE IF FromExternal(ext, proof, sender) = Reverted THEN InvalidProof
    ELSE Ok

\* SubmitOutcome without the require on the existing response
SubmitOutcomeNoDuplicateCheck(sender, id, ext, proof) ==
    IF FromExternal(ext, proof, sender) = Reverted THEN InvalidProof
    ELSE IF ~IsInitialized(FromExternal(ext, proof, sender)) THEN InvalidInput
    ELSE Ok

SubmitOutcome(sender, id, ext, proof) ==
    IF Exists(surveyResponses, id) THEN AlreadyExists
    ELSE IF FromExternal(ext, proof, sender) = Reverted THEN InvalidProof
    ELSE IF ~IsInitialized(FromExternal(ext, proof, sender)) THEN InvalidInput
    ELSE Ok

\* NewResponse leaving the respondent of the record unset
NewResponseNoRespondent(handle, meta, sender, now) ==
    [encryptedAnswer |-> handle,
     publicMetadata |-> meta,
     respondent |-> ZeroAddress,
     timestamp |-> now,
     decryptedAnswer |-> 0,
     isVerified |-> FALSE]

\* NewResponse with the metadata stored in the answer field as well
NewResponseAnswerSet(handle, meta, sender, now) ==
    [encryptedAnswer |-> handle,
     publicMetadata |-> meta,
     respondent |-> sender,
     timestamp |-> now,
     decryptedAnswer |-> meta,
     isVerified |-> FALSE]

\* the record written by submitResponse
NewResponse(handle, meta, sender, now) ==
    [encryptedAnswer |-> handle,
     publicMetadata |-> meta,
     respondent |-> sender,
     timestamp |-> now,
     decryptedAnswer |-> 0,
     isVerified |-> FALSE]

\* Push putting the id at the head of the array
PushFront(ids, id) == <<id>> \o ids

\* responseIds.push(responseId)
Push(ids, id) == Append(ids, id)

submitResponse(sender, id, ext, proof, meta) ==
    LET call == [op |-> "submitResponse", id |-> id, result |-> Ok, ret |-> <<>>]
        outcome == SubmitOutcome(sender, id, ext, proof)
    IN  IF outcome # Ok THEN Revert(call, outcome)
        ELSE
          /\ surveyResponses' = [surveyResponses EXCEPT ![id] =
                NewResponse(FromExternal(ext, proof, sender), meta, sender,
                            blockTimestamp)]
          /\ responseIds' = Push(responseIds, id)
          /\ events' = Append(events,
                [name |-> "ResponseSubmitted", id |-> id, arg |-> sender])
          /\ last' = call
          /\ UNCHANGED <<blockTimestamp, sigChecks>>

\* Cts built from the first response of the list instead of the one verified
CtsOfFirst(responses, ids, id) == <<responses[ids[1]].encryptedAnswer>>

\* the handles list handed to FHE.checkSignatures
Cts(responses, ids, id) == <<responses[id].encryptedAnswer>>

\* VerifyOutcome without the require on isVerified
VerifyOutcomeNoVerifiedCheck(id, payload, proof) ==
    IF ~Exists(surveyResponses, id) THEN DoesNotExist
    ELSE IF ~CheckSignatures(Cts(surveyResponses, responseIds, id),
                             payload, proof) THEN InvalidKMSSignatures
    ELSE IF ~Decodable(payload) THEN DecodeError
    ELSE Ok

\* VerifyOutcome without the call of FHE.checkSignatures
VerifyOutcomeNoSignatureCheck(id, payload, proof) ==
    IF ~Exists(surveyResponses, id) THEN DoesNotExist
    ELSE IF surveyResponses[id].isVerified THEN AlreadyVerified
    ELSE IF ~Decodable(payload) THEN DecodeError
    ELSE Ok

\* VerifyOutcome without the require on the existing response
VerifyOutcomeNoExistsCheck(id, payload, proof) ==
    IF surveyResponses[id].isVerified THEN AlreadyVerified
    ELSE IF ~CheckSignatures(Cts(surveyResponses, responseIds, id),
                             payload, proof) THEN InvalidKMSSignatures
    ELSE IF ~Decodable(payload) THEN DecodeError
    ELSE Ok

\* VerifyOutcome with the signatures checked before the require on isVerified
VerifyOutcomeSignaturesFirst(id, payload, proof) ==
    IF ~Exists(surveyResponses, id) THEN DoesNotExist
    ELSE IF ~CheckSignatures(Cts(surveyResponses, responseIds, id),
                             payload, proof) THEN InvalidKMSSignatures
    ELSE IF surveyResponses[id].isVerified THEN AlreadyVerified
    ELSE IF ~Decodable(payload) THEN DecodeError
    ELSE Ok

VerifyOutcome(id, payload, proof) ==
    IF ~Exists(surveyResponses, id) THEN DoesNotExist
    ELSE IF surveyResponses[id].isVerified THEN AlreadyVerified
    ELSE IF ~CheckSignatures(Cts(surveyResponses, responseIds, id),
                             payload, proof) THEN InvalidKMSSignatures
    ELSE IF ~Decodable(payload) THEN DecodeError
    ELSE Ok

\* StoreDecrypted dropping the ciphertext handle once the answer is clear
StoreDecryptedClearsHandle(response, decodedAnswer) ==
    [response EXCEPT !.decryptedAnswer = decodedAnswer, !.isVerified = TRUE,
                     !.encryptedAnswer = ZeroHandle]

\* the two stores of verifyDecryption
StoreDecrypted(response, decodedAnswer) ==
    [response EXCEPT !.decryptedAnswer = decodedAnswer, !.isVerified = TRUE]

\* DecryptedEvent carrying the answer field as it was before the store
DecryptedEventStale(id, decodedAnswer) ==
    [name |-> "ResponseDecrypted", id |-> id,
     arg |-> surveyResponses[id].decryptedAnswer]

\* emit ResponseDecrypted(responseId, decodedAnswer)
DecryptedEvent(id, decodedAnswer) ==
    [name |-> "ResponseDecrypted", id |-> id, arg |-> decodedAnswer]

verifyDecryption(id, payload, proof) ==
    LET call == [op |-> "verifyDecryption", id |-> id, result |-> Ok, ret |-> <<>>]
        outcome == VerifyOutcome(id, payload, proof)
    IN  IF outcome # Ok THEN Revert(call, outcome)
        ELSE
          /\ surveyResponses' = [surveyResponses EXCEPT ![id] =
                StoreDecrypted(@, AbiDecode(payload))]
          /\ sigChecks' = sigChecks \cup
                {[cts |-> Cts(surveyResponses, responseIds, id),
                  clear |-> payload, proof |-> proof]}
          /\ events' = Append(events, DecryptedEvent(id, AbiDecode(payload)))
          /\ last' = call
          /\ UNCHANGED <<responseIds, blockTimestamp>>

\* a view call: nothing but the caller's observation changes
View(call, outcome, value) ==
    /\ last' = [call EXCEPT !.result = outcome, !.ret = value]
    /\ UNCHANGED <<surveyResponses, responseIds, events, blockTimestamp,
                   sigChecks>>

getEncryptedAnswer(id) ==
    LET call == [op |-> "getEncryptedAnswer", id |-> id, result |-> Ok, ret |-> <<>>]
    IN  IF ~Exists(surveyResponses, id) THEN View(call, DoesNotExist, <<>>)
        ELSE View(call, Ok, <<surveyResponses[id].encryptedAnswer>>)

\* getResponse without the require on the existing response
getResponseNoExistsCheck(id) ==
    LET call == [op |-> "getResponse", id |-> id, result |-> Ok, ret |-> <<>>]
        response == surveyResponses[id]
    IN  View(call, Ok,
             <<response.publicMetadata, response.respondent,
               response.timestamp, response.isVerified,
               response.decryptedAnswer>>)

getResponse(id) ==
    LET call == [op |-> "getResponse", id |-> id, result |-> Ok, ret |-> <<>>]
        response == surveyResponses[id]
    IN  IF ~Exists(surveyResponses, id) THEN View(call, DoesNotExist, <<>>)
        ELSE View(call, Ok,
                  <<response.publicMetadata, response.respondent,
                    response.timestamp, response.isVerified,
                    response.decryptedAnswer>>)

getAllResponseIds ==
    View([op |-> "getAllResponseIds", id |-> "", result |-> Ok, ret |-> <<>>],
         Ok, responseIds)

\* AverageLoop without the test of isVerified
RECURSIVE AverageLoopOverAll(_, _, _, _, _)
AverageLoopOverAll(responses, ids, i, total, count) ==
    IF i > Len(ids) THEN [panic |-> FALSE, total |-> total, count |-> count]
    ELSE IF total + responses[ids[i]].decryptedAnswer > Uint32Max
         THEN [panic |-> TRUE, total |-> total, count |-> count]
         ELSE AverageLoopOverAll(responses, ids, i + 1,
                          total + responses[ids[i]].decryptedAnswer, count + 1)

\* the loop of computeAverage from index i on: the running total and count,
\* or the panic of the checked uint32 addition
RECURSIVE AverageLoop(_, _, _, _, _)
AverageLoop(responses, ids, i, total, count) ==
    IF i > Len(ids) THEN [panic |-> FALSE, total |-> total, count |-> count]
    ELSE IF responses[ids[i]].isVerified
    THEN IF total + responses[ids[i]].decryptedAnswer > Uint32Max
         THEN [panic |-> TRUE, total |-> total, count |-> count]
         ELSE AverageLoop(responses, ids, i + 1,
                          total + responses[ids[i]].decryptedAnswer, count + 1)
    ELSE AverageLoop(responses, ids, i + 1, total, count)

\* Average answering 0 instead of reverting when nothing is verified
AverageZeroWhenEmpty(responses, ids) ==
    LET r == AverageLoop(responses, ids, 1, 0, 0)
    IN  IF r.panic THEN [result |-> PanicOverflow, ret |-> <<>>]
        ELSE IF ~(r.count > 0) THEN [result |-> Ok, ret |-> <<0>>]
        ELSE [result |-> Ok, ret |-> <<r.total \div r.count>>]

\* the outcome and the return value of computeAverage
Average(responses, ids) ==
    LET r == AverageLoop(responses, ids, 1, 0, 0)
    IN  IF r.panic THEN [result |-> PanicOverflow, ret |-> <<>>]
        ELSE IF ~(r.count > 0) THEN [result |-> NoVerified, ret |-> <<>>]
        ELSE [result |-> Ok, ret |-> <<r.total \div r.count>>]

computeAverage ==
    LET call == [op |-> "computeAverage", id |-> "", result |-> Ok, ret |-> <<>>]
        r == Average(surveyResponses, responseIds)
    IN  View(call, r.result, r.ret)

\* MaxLoop keeping the last verified answer, whether larger or not
RECURSIVE MaxLoopKeepsLast(_, _, _, _)
MaxLoopKeepsLast(responses, ids, i, maxAnswer) ==
    IF i > Len(ids) THEN maxAnswer
    ELSE IF responses[ids[i]].isVerified
    THEN MaxLoopKeepsLast(responses, ids, i + 1,
                          responses[ids[i]].decryptedAnswer)
    ELSE MaxLoopKeepsLast(responses, ids, i + 1, maxAnswer)

\* the first loop of computeDistribution: the largest verified answer
RECURSIVE MaxLoop(_, _, _, _)
MaxLoop(responses, ids, i, maxAnswer) ==
    IF i > Len(ids) THEN maxAnswer
    ELSE IF responses[ids[i]].isVerified
            /\ responses[ids[i]].decryptedAnswer > maxAnswer
    THEN MaxLoop(responses, ids, i + 1, responses[ids[i]].decryptedAnswer)
    ELSE MaxLoop(responses, ids, i + 1, maxAnswer)

\* the second loop of computeDistribution: one increment per verified
\* response; <<>> stands for the panic of an index out of the array
RECURSIVE FillLoop(_, _, _, _, _)
FillLoop(responses, ids, i, bucketSize, distribution) ==
    IF i > Len(ids) THEN distribution
    ELSE IF responses[ids[i]].isVerified
    THEN LET bucketIndex == responses[ids[i]].decryptedAnswer \div bucketSize
         IN  IF bucketIndex + 1 > Len(distribution) THEN <<>>
             ELSE FillLoop(responses, ids, i + 1, bucketSize,
                    [distribution EXCEPT ![bucketIndex + 1] = @ + 1])
    ELSE FillLoop(responses, ids, i + 1, bucketSize, distribution)

PanicBounds == "Panic(0x32)"

\* Distribution reverting, as computeAverage does, when nothing is verified
DistributionNeedsVerified(responses, ids, bucketSize) ==
    LET maxAnswer == MaxLoop(responses, ids, 1, 0)
    IN  IF bucketSize = 0 THEN [result |-> PanicDivZero, ret |-> <<>>]
        ELSE IF \A i \in 1..Len(ids) : ~responses[ids[i]].isVerified
        THEN [result |-> NoVerified, ret |-> <<>>]
        ELSE IF (maxAnswer \div bucketSize) + 1 > Uint32Max
        THEN [result |-> PanicOverflow, ret |-> <<>>]
        ELSE LET numBuckets == (maxAnswer \div bucketSize) + 1
                 filled == FillLoop(responses, ids, 1, bucketSize,
                                    [k \in 1..numBuckets |-> 0])
             IN  IF filled = <<>> THEN [result |-> PanicBounds, ret |-> <<>>]
                 ELSE [result |-> Ok, ret |-> filled]

\* the outcome and the return value of computeDistribution
Distribution(responses, ids, bucketSize) ==
    LET maxAnswer == MaxLoop(responses, ids, 1, 0)
    IN  IF bucketSize = 0 THEN [result |-> PanicDivZero, ret |-> <<>>]
        ELSE IF (maxAnswer \div bucketSize) + 1 > Uint32Max
        THEN [result |-> PanicOverflow, ret |-> <<>>]
        ELSE LET numBuckets == (maxAnswer \div bucketSize) + 1
                 filled == FillLoop(responses, ids, 1, bucketSize,
                                    [k \in 1..numBuckets |-> 0])
             IN  IF filled = <<>> THEN [result |-> PanicBounds, ret |-> <<>>]
                 ELSE [result |-> Ok, ret |-> filled]

computeDistribution(bucketSize) ==
    LET call == [op |-> "computeDistribution", id |-> "", result |-> Ok, ret |-> <<>>]
        r == Distribution(surveyResponses, responseIds, bucketSize)
    IN  View(call, r.result, r.ret)

isAvailable ==
    View([op |-> "isAvailable", id |-> "", result |-> Ok, ret |-> <<>>],
         Ok, <<TRUE>>)

\* the calls of the contract, made by any account; no front end moves
Next ==
    \/ Tick /\ UNCHANGED orch
    \/ \E sender \in Senders, id \in Ids, in \in EncryptedInputs,
          meta \in Metadata :
          submitResponse(sender, id, in.ext, in.proof, meta) /\ UNCHANGED orch
    \/ \E id \in Ids, ans \in ClearAnswers :
          verifyDecryption(id, ans.payload, ans.proof) /\ UNCHANGED orch
    \/ \E id \in Ids : getEncryptedAnswer(id) /\ UNCHANGED orch
    \/ \E id \in Ids : getResponse(id) /\ UNCHANGED orch
    \/ getAllResponseIds /\ UNCHANGED orch
    \/ computeAverage /\ UNCHANGED orch
    \/ \E bucketSize \in BucketSizes :
          computeDistribution(bucketSize) /\ UNCHANGED orch
    \/ isAvailable /\ UNCHANGED orch

Spec == Init /\ [][Next]_vars

(***************************************************************************)
(* The front end (src/frontend/web/src/App.tsx): decryptData, one action   *)
(* per await of the handler.  The contract binding and the decryption SDK  *)
(* are not part of the sources: getBusinessData and getEncryptedValue read *)
(* the record of the ledger, and the SDK returns the clear value of a      *)
(* handle with the KMS signatures over it and hands both to the callback.  *)
(***************************************************************************)
\* the answer that was encrypted under a handle
Plaintext(h) == IF h = 1 THEN 3 ELSE Uint32Max

\* abi.encode of a uint32: the high limb of the word is zero
AbiEncode(value) == <<0, value>>

\* what the decryption SDK returns for a handle
Oracle(h) ==
    [payload |-> AbiEncode(Plaintext(h)),
     proof |-> KmsProof(h, AbiEncode(Plaintext(h)))]

\* the words of a revert reason
Words(reason) ==
    CASE reason = DoesNotExist -> <<"Response", "does", "not", "exist">>
      [] reason = AlreadyVerified -> <<"Response", "already", "verified">>
      [] reason = InvalidKMSSignatures -> <<"KMSVerifier:", "invalid", "signatures">>
      [] OTHER -> <<reason>>

\* e.message of a call that reverted: the provider's prefix and the reason
ErrorMessage(reason) == <<"execution", "reverted:">> \o Words(reason)

\* String.prototype.includes, on sequences of words
Includes(message, needle) ==
    \E i \in 1..(Len(message) - Len(needle) + 1) :
        SubSeq(message, i, i + Len(needle) - 1) = needle

\* the text that the catch block of decryptData looks for
AlreadyVerifiedText == <<"Data", "already", "verified">>

\* the catch block of decryptData, entered with the error of a ledger call
Catch(o, reason, calls) ==
    IF Includes(ErrorMessage(reason), AlreadyVerifiedText)
    THEN [orch[o] EXCEPT !.pc = "done", !.calls = calls, !.outcome = reason,
                         !.status = OnChainVerified, !.reloaded = TRUE,
                         !.returned = <<>>]
    ELSE [orch[o] EXCEPT !.pc = "done", !.calls = calls, !.outcome = reason,
                         !.status = DecryptFailed, !.returned = <<>>]

Ledger == <<surveyResponses, responseIds, events, blockTimestamp, last,
            sigChecks>>

\* decryptData(businessId) up to its first await
decryptData(o, id, connected) ==
    /\ orch[o].pc = "idle"
    /\ orch' = [orch EXCEPT ![o] =
          IF ~connected
          THEN [@ EXCEPT !.pc = "done", !.id = id,
                         !.status = WalletNotConnected]
          ELSE [@ EXCEPT !.pc = "getBusinessData", !.id = id]]
    /\ UNCHANGED Ledger

\* getBusinessData going on to decrypt a record read as verified
getBusinessDataNoEarlyReturn(o) ==
    /\ orch[o].pc = "getBusinessData"
    /\ orch' = [orch EXCEPT ![o] =
          IF ~Exists(surveyResponses, orch[o].id)
          THEN Catch(o, DoesNotExist, {})
          ELSE IF surveyResponses[orch[o].id].isVerified
          THEN [@ EXCEPT !.pc = "getEncryptedValue", !.read = "verified"]
          ELSE [@ EXCEPT !.pc = "getEncryptedValue", !.read = "unverified"]]
    /\ UNCHANGED Ledger

\* the record comes back from getBusinessData: the early return on a
\* verified record
getBusinessData(o) ==
    /\ orch[o].pc = "getBusinessData"
    /\ orch' = [orch EXCEPT ![o] =
          IF ~Exists(surveyResponses, orch[o].id)
          THEN Catch(o, DoesNotExist, {})
          ELSE IF surveyResponses[orch[o].id].isVerified
          THEN [@ EXCEPT !.pc = "done", !.read = "verified",
                         !.status = OnChainVerified,
                         !.returned = <<surveyResponses[orch[o].id].decryptedAnswer>>]
          ELSE [@ EXCEPT !.pc = "getEncryptedValue", !.read = "unverified"]]
    /\ UNCHANGED Ledger

\* the handle comes back from getEncryptedValue
getEncryptedValue(o) ==
    /\ orch[o].pc = "getEncryptedValue"
    /\ orch' = [orch EXCEPT ![o] =
          [@ EXCEPT !.pc = "requestDecryption",
                    !.handle = surveyResponses[orch[o].id].encryptedAnswer]]
    /\ UNCHANGED Ledger

\* the SDK asks the decryption oracle for the clear value of the handle; the
\* request succeeds or throws
requestDecryption(o, answered) ==
    /\ orch[o].pc = "requestDecryption"
    /\ orch' = [orch EXCEPT ![o] =
          IF answered
          THEN [@ EXCEPT !.pc = "callback", !.calls = @ \cup {"oracle"}]
          ELSE [@ EXCEPT !.pc = "done", !.calls = @ \cup {"oracle"},
                         !.outcome = "oracle error",
                         !.status = DecryptFailed]]
    /\ UNCHANGED Ledger

\* the callback forwards the clear value and its proof to the ledger
forwardProof(o) ==
    LET answer == Oracle(orch[o].handle)
        outcome == VerifyOutcome(orch[o].id, answer.payload, answer.proof)
        calls == orch[o].calls \cup {"verify"}
    IN  /\ orch[o].pc = "callback"
        /\ verifyDecryption(orch[o].id, answer.payload, answer.proof)
        /\ orch' = [orch EXCEPT ![o] =
              IF outcome = Ok
              THEN [@ EXCEPT !.pc = "loadSurveyData", !.calls = calls,
                             !.outcome = Ok]
              ELSE Catch(o, outcome, calls)]

\* loadSurveyData() after the verification, then the success status and the
\* return of the clear value
loadSurveyData(o) ==
    /\ orch[o].pc = "loadSurveyData"
    /\ orch' = [orch EXCEPT ![o] =
          [@ EXCEPT !.pc = "done", !.reloaded = TRUE,
                    !.status = DecryptVerified,
                    !.returned = <<Plaintext(orch[o].handle)>>]]
    /\ UNCHANGED Ledger

\* the status is dismissed; the front end is ready for the next decryptData
dismiss(o) ==
    /\ orch[o].pc = "done"
    /\ orch' = [orch EXCEPT ![o] = Idle]
    /\ UNCHANGED Ledger

\* respondents submit, front ends decrypt
OrchNext ==
    \/ \E id \in Ids, h \in Handles :
          submitResponse(1, id, h, InputProof(h, 1), 1) /\ UNCHANGED orch
    \/ \E o \in Orchestrators, id \in Ids, connected \in BOOLEAN :
          decryptData(o, id, connected)
    \/ \E o \in Orchestrators : getBusinessData(o)
    \/ \E o \in Orchestrators : getEncryptedValue(o)
    \/ \E o \in Orchestrators, answered \in BOOLEAN :
          requestDecryption(o, answered)
    \/ \E o \in Orchestrators : forwardProof(o)
    \/ \E o \in Orchestrators : loadSurveyData(o)
    \/ \E o \in Orchestrators : dismiss(o)

OrchSpec == Init /\ [][OrchNext]_vars

(***************************************************************************)
(* Vocabulary of the properties.                                           *)
(***************************************************************************)
\* a submitResponse(id, ...) has succeeded: its event is in the log
Submitted(id) ==
    \E k \in 1..Len(events) :
        events[k].name = "ResponseSubmitted" /\ events[k].id = id

\* a verifyDecryption(id, ...) has succeeded: its event is in the log
Decrypted(id) ==
    \E k \in 1..Len(events) :
        events[k].name = "ResponseDecrypted" /\ events[k].id = id

\* the step is a call of submitResponse for id, with any other arguments
SubmitCall(id) ==
    /\ last'.op = "submitResponse"
    /\ last'.id = id
    /\ \E sender \in Senders, in \in EncryptedInputs, meta \in Metadata :
          submitResponse(sender, id, in.ext, in.proof, meta)

\* the step is a call of verifyDecryption for id, with any other arguments
VerifyCall(id) ==
    /\ last'.op = "verifyDecryption"
    /\ last'.id = id
    /\ \E ans \in ClearAnswers : verifyDecryption(id, ans.payload, ans.proof)

\* the unsigned integer that the word of a payload writes
WordValue(payload) == payload[1] * (Uint32Max + 1) + payload[2]

\* the ids of the verified responses
VerifiedIds == {id \in Ids : surveyResponses[id].isVerified}

\* the sum of the stored answers of a set of ids
RECURSIVE SumAnswers(_)
SumAnswers(set) ==
    IF set = {} THEN 0
    ELSE LET id == CHOOSE x \in set : TRUE
         IN  surveyResponses[id].decryptedAnswer + SumAnswers(set \ {id})

\* the ids of the ResponseSubmitted events, in the order of the log
RECURSIVE SubmissionOrder(_)
SubmissionOrder(log) ==
    IF log = <<>> THEN <<>>
    ELSE IF Head(log).name = "ResponseSubmitted"
    THEN <<Head(log).id>> \o SubmissionOrder(Tail(log))
    ELSE SubmissionOrder(Tail(log))

\* the step is a successful verifyDecryption
VerifySucceeds ==
    /\ last'.op = "verifyDecryption"
    /\ last'.result = Ok
    /\ events' # events

\* the functions of the contract declared view or pure
ReadOps == {"getEncryptedAnswer", "getResponse", "getAllResponseIds",
            "computeAverage", "computeDistribution", "isAvailable"}

\* the ResponseDecrypted events of the log for id
DecryptedEventsOf(log, id) ==
    {k \in 1..Len(log) :
        log[k].name = "ResponseDecrypted" /\ log[k].id = id}

\* the sum of the entries of a sequence of numbers
RECURSIVE SumSeq(_)
SumSeq(seq) == IF seq = <<>> THEN 0 ELSE Head(seq) + SumSeq(Tail(seq))

\* the largest stored answer of a non-empty set of ids
MaxAnswerOf(set) ==
    LET id == CHOOSE x \in set :
                 \A y \in set : surveyResponses[y].decryptedAnswer
                                   <= surveyResponses[x].decryptedAnswer
    IN  surveyResponses[id].decryptedAnswer

\* the histogram of the verified answers in buckets of bucketSize >= 1, up to
\* the bucket of the largest verified answer
Histogram(bucketSize) ==
    [k \in 1..((MaxAnswerOf(VerifiedIds) \div bucketSize) + 1) |->
        Cardinality({id \in VerifiedIds :
            surveyResponses[id].decryptedAnswer \div bucketSize = k - 1})]

(***************************************************************************)
(* Properties.                                                             *)
(***************************************************************************)
\* C1: once a submitResponse for an id has succeeded, every later
\* submitResponse for that id, whatever its other arguments and its sender,
\* fails with DuplicateId and leaves every record and the id list as they were.
C1_DuplicateSubmitRejected ==
    [][\A id \in Ids :
         (Submitted(id) /\ SubmitCall(id)) =>
            /\ last'.result \in DuplicateId
            /\ surveyResponses' = surveyResponses
            /\ responseIds' = responseIds]_vars

\* a duplicate submitResponse has just been rejected, on a response that a
\* verification had already changed
C1_Witness ==
    /\ last.op = "submitResponse"
    /\ last.result \in DuplicateId
    /\ Submitted(last.id)
    /\ surveyResponses[last.id].isVerified

\* C2: for every id at most one verifyDecryption succeeds: a call after a
\* successful one fails with AlreadyVerified and leaves the stored answer
\* and the verified flag as they were.
C2_VerifyAtMostOnce ==
    [][\A id \in Ids :
         /\ (Decrypted(id) /\ VerifyCall(id)) =>
               /\ last'.result = AlreadyVerified
               /\ surveyResponses'[id].decryptedAnswer
                     = surveyResponses[id].decryptedAnswer
               /\ surveyResponses'[id].isVerified
                     = surveyResponses[id].isVerified
         /\ Cardinality({k \in 1..Len(events') :
                 events'[k].name = "ResponseDecrypted" /\ events'[k].id = id})
               <= 1]_vars

\* a second verifyDecryption has just been rejected
C2_Witness ==
    /\ last.op = "verifyDecryption"
    /\ last.result = AlreadyVerified
    /\ Decrypted(last.id)

\* C3: a response that is not verified has the answer 0; this is what the
\* state shows right after a successful submitResponse and what getResponse
\* returns for such a response.
C3_UnverifiedHasZeroAnswer ==
    /\ \A id \in Ids :
          ~surveyResponses[id].isVerified
             => surveyResponses[id].decryptedAnswer = 0
    /\ (last.op = "submitResponse" /\ last.result = Ok) =>
          /\ surveyResponses[last.id].isVerified = FALSE
          /\ surveyResponses[last.id].decryptedAnswer = 0
    /\ (last.op = "getResponse" /\ last.result = Ok /\ last.ret[4] = FALSE)
          => last.ret[5] = 0

\* getResponse(id) has returned, and the last write to the contract is the
\* submitResponse of that id with a non-zero metadata
C3_Witness ==
    /\ last.op = "getResponse"
    /\ last.result = Ok
    /\ last.ret[1] # 0
    /\ last.ret[4] = FALSE
    /\ Len(events) > 0
    /\ events[Len(events)].name = "ResponseSubmitted"
    /\ events[Len(events)].id = last.id


\* C4: a verified response stays verified and keeps its answer through every
\* later call, whatever the function and its arguments.
C4_VerifiedIsTerminal ==
    [][\A id \in Ids :
         surveyResponses[id].isVerified =>
            /\ surveyResponses'[id].isVerified
            /\ surveyResponses'[id].decryptedAnswer
                  = surveyResponses[id].decryptedAnswer]_vars

\* a verifyDecryption with signatures over another answer has just been
\* rejected on a verified response, after a later submitResponse succeeded
C4_Witness ==
    /\ last.op = "verifyDecryption"
    /\ last.result = AlreadyVerified
    /\ surveyResponses[last.id].decryptedAnswer = 3
    /\ Len(events) = 3
    /\ events[2].name = "ResponseDecrypted"
    /\ events[3].name = "ResponseSubmitted"

\* C5: a successful verifyDecryption(id, payload, proof) stores the uint32
\* that the payload encodes and sets isVerified in the same step, changing
\* nothing else of the record; the answer and the flag of a response never
\* change apart from that step, and getResponse returns both as stored.
C5_VerifyStoresDecodedAnswer ==
    [][\A id \in Ids :
         /\ \A ans \in ClearAnswers :
              (/\ last'.op = "verifyDecryption"
               /\ last'.id = id
               /\ last'.result = Ok
               /\ verifyDecryption(id, ans.payload, ans.proof)) =>
                 /\ WordValue(ans.payload) <= Uint32Max
                 /\ surveyResponses'[id] =
                      [surveyResponses[id] EXCEPT
                          !.decryptedAnswer = WordValue(ans.payload),
                          !.isVerified = TRUE]
         /\ (\/ surveyResponses'[id].decryptedAnswer
                   # surveyResponses[id].decryptedAnswer
             \/ surveyResponses'[id].isVerified
                   # surveyResponses[id].isVerified) =>
                 /\ ~surveyResponses[id].isVerified
                 /\ surveyResponses'[id].isVerified
                 /\ last'.op = "verifyDecryption"
                 /\ last'.id = id
                 /\ last'.result = Ok
         /\ (/\ last'.op = "getResponse"
             /\ last'.id = id
             /\ last'.result = Ok
             /\ getResponse(id)) =>
                 /\ last'.ret[4] = surveyResponses[id].isVerified
                 /\ last'.ret[5] = surveyResponses[id].decryptedAnswer]_vars

\* getResponse has returned the largest uint32 as the verified answer right
\* after the verifyDecryption that stored it
C5_Witness ==
    /\ last.op = "getResponse"
    /\ last.result = Ok
    /\ last.ret[4] = TRUE
    /\ last.ret[5] = Uint32Max
    /\ Len(events) > 0
    /\ events[Len(events)] =
          [name |-> "ResponseDecrypted", id |-> last.id, arg |-> Uint32Max]

\* C6: a verifyDecryption on a submitted and unverified response with a
\* proof that does not check against the stored handle and the payload
\* fails with ProofInvalid; records, id list and event log stay as they
\* were, and some verifyDecryption of that id would still succeed.
C6_InvalidProofRejected ==
    [][\A id \in Ids : \A ans \in ClearAnswers :
         (/\ Submitted(id)
          /\ ~Decrypted(id)
          /\ ~CheckSignatures(<<surveyResponses[id].encryptedAnswer>>,
                              ans.payload, ans.proof)
          /\ last'.op = "verifyDecryption"
          /\ last'.id = id
          /\ verifyDecryption(id, ans.payload, ans.proof)) =>
            /\ last'.result \in ProofInvalid
            /\ surveyResponses' = surveyResponses
            /\ responseIds' = responseIds
            /\ events' = events
            /\ surveyResponses'[id].isVerified = FALSE
            /\ surveyResponses'[id].decryptedAnswer = 0
            /\ \E good \in ClearAnswers :
                  (VerifyOutcome(id, good.payload, good.proof) = Ok)']_vars

\* a verifyDecryption has just been rejected for its proof on a response
\* that is still encrypted
C6_Witness ==
    /\ last.op = "verifyDecryption"
    /\ last.result \in ProofInvalid
    /\ Submitted(last.id)
    /\ ~surveyResponses[last.id].isVerified

\* C7: a verifyDecryption for an id that was never submitted fails with
\* NotFound; no record appears for the id, records, id list and event log
\* stay as they were, and some submitResponse of that id would still succeed.
C7_VerifyUnknownRejected ==
    [][\A id \in Ids :
         (~Submitted(id) /\ VerifyCall(id)) =>
            /\ last'.result \in NotFound
            /\ surveyResponses' = surveyResponses
            /\ responseIds' = responseIds
            /\ events' = events
            /\ surveyResponses'[id] = EmptyResponse
            /\ \E sender \in Senders, in \in EncryptedInputs :
                  (SubmitOutcome(sender, id, in.ext, in.proof) = Ok)']_vars

\* a verifyDecryption has just been rejected for an unknown id while another
\* response is in the ledger
C7_Witness ==
    /\ last.op = "verifyDecryption"
    /\ last.result \in NotFound
    /\ ~Submitted(last.id)
    /\ Len(responseIds) = 1

\* C8: the answer of every verified response is the uint32 of a payload
\* whose signatures passed FHE.checkSignatures against the handle stored in
\* that very response; a verifyDecryption whose proof checks against the
\* handle of another response only is rejected and stores nothing.
C8_NeverDecryptWithoutProof ==
    /\ [](\A id \in Ids :
            surveyResponses[id].isVerified =>
               \E c \in sigChecks :
                  /\ c.cts = <<surveyResponses[id].encryptedAnswer>>
                  /\ c.proof = KmsProof(surveyResponses[id].encryptedAnswer,
                                        c.clear)
                  /\ WordValue(c.clear)
                        = surveyResponses[id].decryptedAnswer)
    /\ [][\A id \in Ids : \A ans \in ClearAnswers :
            (/\ Submitted(id)
             /\ ans.proof # KmsProof(surveyResponses[id].encryptedAnswer,
                                     ans.payload)
             /\ last'.op = "verifyDecryption"
             /\ last'.id = id
             /\ verifyDecryption(id, ans.payload, ans.proof)) =>
               /\ last'.result # Ok
               /\ surveyResponses' = surveyResponses
               /\ sigChecks' = sigChecks]_vars

\* one response is verified, and a verifyDecryption of another response,
\* which holds another handle, has just been rejected for its proof
C8_Witness ==
    /\ last.op = "verifyDecryption"
    /\ last.result \in ProofInvalid
    /\ \E id \in Ids :
          /\ id # last.id
          /\ surveyResponses[id].isVerified
          /\ Submitted(last.id)
          /\ surveyResponses[id].encryptedAnswer
                # surveyResponses[last.id].encryptedAnswer

\* C9: with at least one verified response, computeAverage returns the floor
\* of the sum of the verified answers over their number.
C9_AverageIsFloorOfSum ==
    (last.op = "computeAverage" /\ VerifiedIds # {}) =>
        /\ last.result = Ok
        /\ last.ret = <<SumAnswers(VerifiedIds) \div Cardinality(VerifiedIds)>>

\* C10: with no verified response, on an empty ledger or not, computeAverage
\* fails with NoVerifiedData and returns no value.
C10_AverageNeedsVerifiedData ==
    (last.op = "computeAverage" /\ VerifiedIds = {}) =>
        /\ last.result \in NoVerifiedData
        /\ last.ret = <<>>

\* computeAverage has just failed on a ledger of two unverified responses
C10_Witness ==
    /\ last.op = "computeAverage"
    /\ last.result \in NoVerifiedData
    /\ Len(responseIds) = 2
    /\ VerifiedIds = {}


\* C11: for every bucketSize >= 1, with at least one verified response,
\* computeDistribution(bucketSize) returns the histogram of the verified
\* answers: floor(max / bucketSize) + 1 entries, entry k counting the
\* verified answers of bucket k, empty buckets being 0.
C11_DistributionIsHistogram ==
    [][\A bucketSize \in BucketSizes :
         (/\ bucketSize >= 1
          /\ VerifiedIds # {}
          /\ last'.op = "computeDistribution"
          /\ computeDistribution(bucketSize)) =>
            /\ last'.result = Ok
            /\ last'.ret = Histogram(bucketSize)]_vars

\* C12: computeDistribution(0) fails with InvalidArgument in every state.
C12_ZeroBucketSizeIsInvalidArgument ==
    [][(last'.op = "computeDistribution" /\ computeDistribution(0)) =>
            last'.result \in InvalidArgument]_vars


\* C13: the outcomes of computeAverage and of computeDistribution(b) are
\* the same before and after every step that is not a successful
\* verifyDecryption (submitResponse, successful or not, and failed
\* verifyDecryption among them); after a successful verifyDecryption the
\* values they return count the newly verified answer.
C13_AggregatesOverVerifiedOnly ==
    [][/\ ~VerifySucceeds =>
            /\ Average(surveyResponses', responseIds')
                  = Average(surveyResponses, responseIds)
            /\ \A b \in BucketSizes :
                  Distribution(surveyResponses', responseIds', b)
                     = Distribution(surveyResponses, responseIds, b)
       /\ VerifySucceeds =>
            LET v == surveyResponses'[last'.id].decryptedAnswer
                avg == Average(surveyResponses', responseIds')
            IN  /\ last'.id \notin VerifiedIds
                /\ avg.result = Ok =>
                      avg.ret = <<(SumAnswers(VerifiedIds) + v)
                                    \div (Cardinality(VerifiedIds) + 1)>>
                /\ \A b \in BucketSizes :
                      LET old == Distribution(surveyResponses, responseIds, b)
                          new == Distribution(surveyResponses', responseIds', b)
                          k == (v \div b) + 1
                      IN  new.result = Ok =>
                             /\ old.result = Ok
                             /\ k <= Len(new.ret)
                             /\ new.ret[k] =
                                  (IF k <= Len(old.ret) THEN old.ret[k] ELSE 0)
                                     + 1]_vars

\* a submitResponse has just succeeded right after the verification of the
\* other response, and the average is still the verified answer alone
C13_Witness ==
    /\ last.op = "submitResponse"
    /\ last.result = Ok
    /\ Len(events) = 3
    /\ events[2].name = "ResponseDecrypted"
    /\ events[2].arg = 3
    /\ Average(surveyResponses, responseIds) = [result |-> Ok, ret |-> <<3>>]

\* C14: the id list only grows at its end: a successful submitResponse(id)
\* appends id, every other step (failed submitResponse and verifyDecryption
\* among them) leaves the list as it was, so the list is the order of the
\* successful submissions, and getAllResponseIds returns it.
C14_ListIsAppendOnly ==
    /\ [](responseIds = SubmissionOrder(events))
    /\ [][/\ \/ responseIds' = responseIds
             \/ \E id \in Ids : responseIds' = Append(responseIds, id)
          /\ \A id \in Ids :
                SubmitCall(id) =>
                   responseIds' = (IF last'.result = Ok
                                   THEN Append(responseIds, id)
                                   ELSE responseIds)
          /\ last'.op = "verifyDecryption" => responseIds' = responseIds
          /\ (last'.op = "getAllResponseIds" /\ getAllResponseIds) =>
                last'.ret = responseIds]_vars

\* getAllResponseIds has returned b before a, a being verified since
C14_Witness ==
    /\ last.op = "getAllResponseIds"
    /\ last.ret = <<"b", "a">>
    /\ surveyResponses["a"].isVerified
    /\ events[Len(events)].name = "ResponseDecrypted"

\* C15: the id list holds the id of every stored response exactly once and
\* nothing else, and getResponse(id) succeeds exactly for the ids of the list.
C15_ListMatchesRecords ==
    /\ Len(responseIds)
          = Cardinality({id \in Ids : Exists(surveyResponses, id)})
    /\ \A i, j \in 1..Len(responseIds) :
          i # j => responseIds[i] # responseIds[j]
    /\ \A id \in Ids :
          Exists(surveyResponses, id)
             <=> \E k \in 1..Len(responseIds) : responseIds[k] = id
    /\ last.op = "getResponse" =>
          (last.result = Ok
             <=> \E k \in 1..Len(responseIds) : responseIds[k] = last.id)

\* getResponse has just failed for the id that is not in the list of one id
C15_Witness ==
    /\ last.op = "getResponse"
    /\ last.result \in NotFound
    /\ Len(responseIds) = 1
    /\ responseIds[1] # last.id


\* C16: a record exists for an id exactly when a submitResponse of that id
\* has succeeded; a record appears only in a successful submitResponse of
\* its id, and an existing record exists after every step, so getResponse on
\* it succeeds from then on.
C16_CreatedBySubmitNeverDeleted ==
    /\ [](\A id \in Ids : Exists(surveyResponses, id) <=> Submitted(id))
    /\ [][\A id \in Ids :
            /\ Exists(surveyResponses, id) => Exists(surveyResponses', id)
            /\ (~Exists(surveyResponses, id) /\ Exists(surveyResponses', id)) =>
                  /\ last'.op = "submitResponse"
                  /\ last'.id = id
                  /\ last'.result = Ok
            /\ (/\ Exists(surveyResponses, id)
                /\ last'.op = "getResponse"
                /\ last'.id = id
                /\ getResponse(id)) => last'.result = Ok]_vars

\* getResponse has succeeded on the first response of two, verified since
C16_Witness ==
    /\ last.op = "getResponse"
    /\ last.result = Ok
    /\ Len(responseIds) = 2
    /\ last.id = responseIds[1]
    /\ surveyResponses[last.id].isVerified

\* C17: an existing record changes only in a successful verifyDecryption of
\* its id, which changes its decryptedAnswer and isVerified and nothing
\* else: the handle, the metadata, the respondent and the timestamp of the
\* record, the records of the other ids and the id list stay as they were.
C17_OnlyVerifyChangesRecord ==
    [][\A id \in Ids :
         (/\ Exists(surveyResponses, id)
          /\ surveyResponses'[id] # surveyResponses[id]) =>
            /\ VerifySucceeds
            /\ last'.id = id
            /\ surveyResponses'[id].encryptedAnswer
                  = surveyResponses[id].encryptedAnswer
            /\ surveyResponses'[id].publicMetadata
                  = surveyResponses[id].publicMetadata
            /\ surveyResponses'[id].respondent
                  = surveyResponses[id].respondent
            /\ surveyResponses'[id].timestamp
                  = surveyResponses[id].timestamp
            /\ \A other \in Ids \ {id} :
                  surveyResponses'[other] = surveyResponses[other]
            /\ responseIds' = responseIds]_vars

\* a verifyDecryption has just succeeded at time 2 on a response submitted at
\* time 1, another response being in the ledger
C17_Witness ==
    /\ last.op = "verifyDecryption"
    /\ last.result = Ok
    /\ events[Len(events)].name = "ResponseDecrypted"
    /\ surveyResponses[last.id].timestamp = 1
    /\ blockTimestamp = 2
    /\ Len(responseIds) = 2

\* C18: a submitResponse for an id not yet submitted, with an input proof
\* that does not attest the handle for the sender, or with the zero handle,
\* fails with InvalidCiphertext; no record appears, records, id list and
\* event log stay as they were, and some submitResponse of that id would
\* still succeed.  Every stored record holds a non-zero handle that is
\* attested for its respondent.
C18_InvalidCiphertextRejected ==
    /\ [](\A id \in Ids :
            Exists(surveyResponses, id) =>
               /\ surveyResponses[id].encryptedAnswer \in Handles
               /\ \E in \in EncryptedInputs :
                     /\ in.ext = surveyResponses[id].encryptedAnswer
                     /\ in.proof = InputProof(in.ext,
                                              surveyResponses[id].respondent))
    /\ [][\A id \in Ids : \A sender \in Senders, in \in EncryptedInputs,
             meta \in Metadata :
            (/\ ~Submitted(id)
             /\ (in.proof # InputProof(in.ext, sender) \/ in.ext = ZeroHandle)
             /\ last'.op = "submitResponse"
             /\ last'.id = id
             /\ submitResponse(sender, id, in.ext, in.proof, meta)) =>
               /\ last'.result \in InvalidCiphertext
               /\ surveyResponses' = surveyResponses
               /\ responseIds' = responseIds
               /\ events' = events
               /\ ~Exists(surveyResponses', id)
               /\ \E sender2 \in Senders, in2 \in EncryptedInputs :
                     (SubmitOutcome(sender2, id, in2.ext, in2.proof) = Ok)']_vars

\* a submitResponse has just been rejected for its input on a fresh id,
\* another response being in the ledger
C18_Witness ==
    /\ last.op = "submitResponse"
    /\ last.result \in InvalidCiphertext
    /\ ~Submitted(last.id)
    /\ Len(responseIds) = 1

\* C19: getResponse(id) fails with NotFound when no submitResponse of id has
\* succeeded and succeeds otherwise; a call of a view function, whether it
\* returns or reverts, leaves records, id list and event log as they were.
C19_ReadsChangeNothing ==
    [][/\ (last'.op \in ReadOps /\ last' # last) =>
            /\ surveyResponses' = surveyResponses
            /\ responseIds' = responseIds
            /\ events' = events
       /\ \A id \in Ids :
            (last'.op = "getResponse" /\ last'.id = id /\ getResponse(id)) =>
               (IF Submitted(id) THEN last'.result = Ok
                                 ELSE last'.result \in NotFound)]_vars

\* getResponse has just failed for an unknown id while the other response is
\* verified
C19_Witness ==
    /\ last.op = "getResponse"
    /\ last.result \in NotFound
    /\ ~Submitted(last.id)
    /\ VerifiedIds # {}

\* C20: the log gets a ResponseDecrypted event for id exactly in a successful
\* verifyDecryption of id: a failed one appends nothing, every id has at most
\* one such event, and the event carries the answer stored in the record.
C20_NotificationIffVerified ==
    /\ [](\A id \in Ids :
            /\ Cardinality(DecryptedEventsOf(events, id)) <= 1
            /\ (DecryptedEventsOf(events, id) # {})
                  <=> surveyResponses[id].isVerified
            /\ \A k \in DecryptedEventsOf(events, id) :
                  events[k].arg = surveyResponses[id].decryptedAnswer)
    /\ [][/\ \A id \in Ids :
                VerifyCall(id) =>
                   events' = (IF last'.result = Ok
                              THEN Append(events,
                                     [name |-> "ResponseDecrypted", id |-> id,
                                      arg |-> surveyResponses'[id].decryptedAnswer])
                              ELSE events)
          /\ (\E id \in Ids : DecryptedEventsOf(events', id)
                                 # DecryptedEventsOf(events, id)) =>
                /\ VerifySucceeds
                /\ Len(events') = Len(events) + 1
                /\ events'[Len(events')].name = "ResponseDecrypted"
                /\ events'[Len(events')].id = last'.id]_vars

\* one notification is in the log, carrying the largest uint32, and the
\* verifyDecryption of the other response has just failed for its proof
C20_Witness ==
    /\ last.op = "verifyDecryption"
    /\ last.result \in ProofInvalid
    /\ Len(events) = 3
    /\ events[3].name = "ResponseDecrypted"
    /\ events[3].arg = Uint32Max
    /\ events[3].id # last.id


C22_AverageFailsWithoutDataOnly ==
    last.op = "computeAverage" =>
        IF VerifiedIds = {}
        THEN last.result \in NoVerifiedData
        ELSE /\ last.result = Ok
             /\ last.ret = <<SumAnswers(VerifiedIds)
                               \div Cardinality(VerifiedIds)>>

\* C23: computeDistribution(bucketSize) fails with InvalidArgument only:
\* for every bucketSize >= 1 it returns, whatever the largest verified answer.
C23_DistributionFailsOnZeroOnly ==
    [][\A bucketSize \in BucketSizes :
         (/\ bucketSize >= 1
          /\ last'.op = "computeDistribution"
          /\ computeDistribution(bucketSize)) => last'.result = Ok]_vars


\* C24: verifyDecryption tests the existence first, isVerified second and
\* the signatures last: on an id never submitted it fails with NotFound and
\* on a verified response with AlreadyVerified, whatever the proof, and no
\* signature check is passed in such a call.
C24_VerifyCheckOrder ==
    [][\A id \in Ids : \A ans \in ClearAnswers :
         (/\ last'.op = "verifyDecryption"
          /\ last'.id = id
          /\ verifyDecryption(id, ans.payload, ans.proof)) =>
            /\ ~Submitted(id) =>
                  (last'.result \in NotFound /\ sigChecks' = sigChecks)
            /\ Decrypted(id) =>
                  (last'.result = AlreadyVerified /\ sigChecks' = sigChecks)
            /\ (/\ Submitted(id)
                /\ ~Decrypted(id)
                /\ ~CheckSignatures(<<surveyResponses[id].encryptedAnswer>>,
                                    ans.payload, ans.proof)) =>
                  last'.result \in ProofInvalid]_vars

\* a verifyDecryption has just failed with AlreadyVerified while both
\* responses are verified, with answers 3 and the largest uint32
C24_Witness ==
    /\ last.op = "verifyDecryption"
    /\ last.result = AlreadyVerified
    /\ VerifiedIds = Ids
    /\ {surveyResponses[id].decryptedAnswer : id \in Ids} = {3, Uint32Max}

\* C25: with no verified response and bucketSize >= 1, computeDistribution
\* returns <<0>> where computeAverage fails with NoVerifiedData; it returns
\* one entry as well when every verified answer is below bucketSize.
C25_DistributionOfNothingIsOneZero ==
    [][\A bucketSize \in BucketSizes :
         (/\ bucketSize >= 1
          /\ last'.op = "computeDistribution"
          /\ computeDistribution(bucketSize)) =>
            /\ VerifiedIds = {} =>
                  /\ last'.result = Ok
                  /\ last'.ret = <<0>>
                  /\ Average(surveyResponses, responseIds).result
                        \in NoVerifiedData
            /\ (/\ VerifiedIds # {}
                /\ \A id \in VerifiedIds :
                      surveyResponses[id].decryptedAnswer < bucketSize) =>
                  /\ last'.result = Ok
                  /\ Len(last'.ret) = 1]_vars

\* computeDistribution has returned <<0>> on a ledger of two unverified
\* responses
C25_Witness ==
    /\ last.op = "computeDistribution"
    /\ last.result = Ok
    /\ last.ret = <<0>>
    /\ Len(responseIds) = 2
    /\ VerifiedIds = {}

\* C26: for bucketSize >= 1 computeDistribution never increments an entry
\* out of the array it allocated, and the entries of the sequence it returns
\* sum to the number of verified responses.
C26_DistributionCountsEveryVerified ==
    [][\A bucketSize \in BucketSizes :
         (/\ bucketSize >= 1
          /\ last'.op = "computeDistribution"
          /\ computeDistribution(bucketSize)) =>
            /\ last'.result # PanicBounds
            /\ \A id \in VerifiedIds :
                  surveyResponses[id].decryptedAnswer \div bucketSize
                     <= MaxAnswerOf(VerifiedIds) \div bucketSize
            /\ last'.result = Ok =>
                  SumSeq(last'.ret) = Cardinality(VerifiedIds)]_vars

\* computeDistribution has returned seven buckets for the verified answers 3
\* and the largest uint32
C26_Witness ==
    /\ last.op = "computeDistribution"
    /\ last.result = Ok
    /\ Len(last.ret) = (Uint32Max \div 5) + 1
    /\ SumSeq(last.ret) = 2
    /\ last.ret[1] = 1

(***************************************************************************)
(* Verification under a caller that keeps supplying decryption proofs.     *)
(***************************************************************************)
\* the caller forwards to verifyDecryption the signatures that the KMS
\* produced over `payload` for the handle stored for id
SupplyProof(id, payload) ==
    /\ Exists(surveyResponses, id)
    /\ verifyDecryption(id, payload,
                        KmsProof(surveyResponses[id].encryptedAnswer, payload))
    /\ UNCHANGED orch

\* every such proof is forwarded again as long as it makes a difference
FairSpec ==
    Spec /\ \A id \in Ids : \A payload \in Payloads :
                WF_vars(SupplyProof(id, payload))

\* C27: in every reachable state a response that is stored and not verified
\* can be verified: verifyDecryption with the signatures over an encoded
\* answer for the stored handle succeeds, whatever calls came before; when
\* such proofs keep being supplied every stored response is eventually
\* verified; and a verified response stays verified.
C27_EncryptedCanAlwaysBeVerified ==
    /\ [](\A id \in Ids :
            Exists(surveyResponses, id) /\ ~surveyResponses[id].isVerified
            => \A payload \in Payloads :
                 Decodable(payload)
                 => VerifyOutcome(id, payload,
                       KmsProof(surveyResponses[id].encryptedAnswer, payload))
                    = Ok)
    /\ \A id \in Ids :
          Exists(surveyResponses, id) ~> surveyResponses[id].isVerified
    /\ [][\A id \in Ids :
            surveyResponses[id].isVerified => surveyResponses'[id].isVerified]_vars

\* both responses, stored with different handles, have been verified, the
\* second one by the call just made
C27_Witness ==
    /\ VerifiedIds = Ids
    /\ surveyResponses["a"].encryptedAnswer # surveyResponses["b"].encryptedAnswer
    /\ last.op = "verifyDecryption"
    /\ last.id = "b"
    /\ last.result = Ok

\* C28: a decryptData that read the record as verified calls neither the
\* decryption oracle nor verifyDecryption and returns the stored answer with
\* the already-verified status; the oracle is asked and the proof forwarded
\* only by a decryptData that read the record as unverified.
C28_NoVerifyForVerifiedRead ==
    /\ [](\A o \in Orchestrators :
            orch[o].read = "verified"
            => /\ orch[o].pc = "done"
               /\ orch[o].calls = {}
               /\ orch[o].status = OnChainVerified
               /\ orch[o].returned = <<surveyResponses[orch[o].id].decryptedAnswer>>)
    /\ [][\A o \in Orchestrators :
            ((\E answered \in BOOLEAN : requestDecryption(o, answered))
             \/ forwardProof(o))
            => orch[o].read = "unverified"]_vars

\* one front end has verified a response, the other one has then read it as
\* verified and returned the stored answer
C28_Witness ==
    \E o1, o2 \in Orchestrators :
        /\ orch[o1].pc = "done" /\ orch[o1].status = DecryptVerified
        /\ orch[o2].pc = "done" /\ orch[o2].read = "verified"
        /\ orch[o2].id = orch[o1].id
        /\ orch[o2].returned = <<3>>

\* C29: when two front ends have read the same response as unverified and
\* both have forwarded a proof, the ledger has accepted exactly one, and the
\* other front end, rejected as already verified, shows the already-verified
\* success status and has reloaded the data.
C29_LoserReportsAlreadyVerified ==
    \A o1, o2 \in Orchestrators :
        /\ o1 # o2
        /\ orch[o1].id = orch[o2].id
        /\ \A o \in {o1, o2} :
              /\ orch[o].pc = "done"
              /\ orch[o].read = "unverified"
              /\ "verify" \in orch[o].calls
        => /\ (orch[o1].outcome = Ok) # (orch[o2].outcome = Ok)
           /\ \A o \in {o1, o2} :
                 orch[o].outcome # Ok
                 => /\ orch[o].outcome = AlreadyVerified
                    /\ orch[o].status = OnChainVerified
                    /\ orch[o].reloaded
====
